---------------------------- MODULE Spec2Model ----------------------------
(***************************************************************************)
(* Model of unoparty-gui's RPC Gateway (unopartygui/api.py,                *)
(* UnopartydAPI.call) and Status Loop (unopartygui/gui.py, GUI.__init__,   *)
(* initXcpApi, refreshStatus, notifyPlugins, loadPlugins).                 *)
(*                                                                         *)
(* The program runs on one thread.  A handler runs until it returns or     *)
(* until it opens a modal dialog with exec() (InputDialog, the message box *)
(* of UnopartydRPCError); there Qt runs a nested event loop, which         *)
(* dispatches the QTimer's timeout, so that a refreshStatus can begin on   *)
(* top of a suspended plugin request.  Qt does not deliver a timer's       *)
(* timeout again while the handler of that timer's previous timeout has    *)
(* not returned, so no refreshStatus begins on top of a refreshStatus.     *)
(* The model keeps a stack of activations; only the top one steps.         *)
(***************************************************************************)
EXTENDS Integers, Sequences, FiniteSets

\* ------------------------------------------------------------------ bounds
\* Most activations (refreshStatus runs, the startup one included, and
\* plugin Gateway calls) in one run.
MaxActivations == 3
\* Deepest recursion of UnopartydAPI.call followed (the code sets no limit).
MaxLevel == 3
\* Longest string supplied as a value of params.
MaxStrLen == 3
\* Deepest nesting of a result in lists.
MaxDepth == 2

\* ------------------------------------------------- values of the environment
\* self.currentBlock = None
None == 0
\* block heights the daemon may report for get_running_info
ServerHeights == {100, 101}
\* values the daemon may return for wallet_last_block
WalletHeights == {99, 100}
\* values the daemon may return to a plugin's request
UiValues == {7}
\* config.PLUGINS, in registration order (the shipped list is ['send'];
\* further entries make the order of the registry and the place of a plugin
\* without onMessage observable)
PLUGINS == <<"send", "dex", "bet">>

VARIABLES
    session,        \* "init": inside GUI.__init__; "running": app.exec();
                    \* "configDialog": startup failure dialog; "exited"
    hasXcpApi,      \* hasattr(self, 'xcpApi')
    constructed,    \* how many times UnopartydAPI(self.config) has returned
    hasPlugins,     \* hasattr(self, 'plugins')
    plugins,        \* self.plugins, the registry built by initPlugins
    timerStarted,   \* the QTimer of GUI.__init__ was started
    currentBlock,   \* self.currentBlock
    stack,          \* suspended and running activations, innermost last
    ntick,          \* refreshStatus activations begun
    ncall,          \* plugin Gateway calls begun
    onMessage,      \* which plugin files define onMessage (fixed per run)
    configResult,   \* how the startup-failure ConfigDialog was closed
    \* history, read by the properties only
    lastTick,       \* the refreshStatus activation that returned last
    lastOk,         \* height seen by the latest refreshStatus that returned True
    received,       \* per plugin: its latest onMessage invocations, in order
    lastCall,       \* the top-level UnopartydAPI.call that ended in the last step
    lastPref,       \* the Preferences activation the last step was, if it was one
    \* one UnopartydAPI.call seen from its two ends
    phase,          \* "idle", "called" (clientapi.call entered), "returned"
    request,        \* the query's params as the caller supplied them
    delivered,      \* the params clientapi.call received
    apiResult,      \* what clientapi.call returned
    output          \* the result after json.dumps and json.loads

vars == <<session, hasXcpApi, constructed, hasPlugins, plugins, timerStarted,
          currentBlock, stack, ntick, ncall, onMessage, configResult,
          lastTick, lastOk, received, lastCall, lastPref,
          phase, request, delivered, apiResult, output>>

\* the GUI object's attributes
gui == <<session, hasXcpApi, constructed, hasPlugins, plugins, timerStarted,
         currentBlock>>
\* what no step of a handler changes but its first
env == <<ntick, ncall, onMessage, configResult>>
\* the history of the status loop
hist == <<lastTick, lastOk, received>>
\* the data of the one call followed from end to end
data == <<phase, request, delivered, apiResult, output>>
\* the session, which the end-to-end view of one call leaves alone
shell == <<session, hasXcpApi, constructed, hasPlugins, plugins, timerStarted,
           currentBlock, stack, ntick, ncall, onMessage, configResult,
           lastTick, lastOk, received, lastCall, lastPref>>

\* ----------------------------------------------------------------- helpers
Top == stack[Len(stack)]
Rest == SubSeq(stack, 1, Len(stack) - 1)
ReplaceTop(f) == Append(Rest, f)

Count(tr, x) == Cardinality({i \in 1..Len(tr) : tr[i] = x})

\* A plugin's history keeps its two latest entries.
Latest(log) == IF Len(log) > 2 THEN Tail(log) ELSE log

PluginNames == {PLUGINS[i] : i \in 1..Len(PLUGINS)}

NoHeights == [server |-> None]

NoTick == [id |-> 0, result |-> "none", cause |-> "none", server |-> None,
           wallet |-> None, notified |-> FALSE, recipients |-> <<>>,
           loaded |-> FALSE, prev |-> NoHeights, after |-> "none",
           afterCause |-> "none"]

NoCall == [method |-> "none", rd |-> FALSE, trace |-> <<>>, status |-> "none",
           boxed |-> FALSE, value |-> None]

NoPref == [done |-> FALSE, accepted |-> FALSE, hadXcpApi |-> FALSE,
           constructed |-> 0, block |-> None]

\* ------------------------------------------------ values of a query's params
\* A Python value a caller may supply: an int n, a float of n halves, a str of
\* characters s, or None.
Val(t, n, s) == [t |-> t, n |-> n, s |-> s]
IntV(n) == Val("int", n, <<>>)
FloatV(halves) == Val("float", halves, <<>>)
StrV(s) == Val("str", 0, s)
NoneV == Val("none", 0, <<>>)

\* the characters of the strings supplied
Chars == {"1", "2", "-", " ", ".", "x"}
Strings == UNION {[1..k -> Chars] : k \in 0..MaxStrLen}

\* the values supplied for quantity, and for another key of params
Quantities ==
    {StrV(s) : s \in Strings} \cup {IntV(n) : n \in {-1, 0, 12}}
        \cup {FloatV(h) : h \in {-3, 3, 5}} \cup {NoneV}
Others == {StrV(<<"1", "2">>), IntV(5)}

\* the keys of params, in the orders a dict may iterate them
ParamKeys == {"quantity", "asset"}
KeyOrders == {<<"quantity", "asset">>, <<"asset", "quantity">>}

Requests ==
    {[keys |-> o, params |-> [quantity |-> q, asset |-> a]] :
        o \in KeyOrders, q \in Quantities, a \in Others}

NoParams == [quantity |-> NoneV, asset |-> NoneV]

\* ------------------------------------------------------ values of a result
\* A value clientapi.call may return: a Decimal of sign neg, coefficient c and
\* p decimal places (c / 10^p), an int c, a str s, or a list of such values.
RVal(t, neg, c, p, s, items) ==
    [t |-> t, neg |-> neg, c |-> c, p |-> p, s |-> s, items |-> items]
NoResult == RVal("none", FALSE, 0, 0, <<>>, <<>>)
DecV(neg, c, p) == RVal("dec", neg, c, p, <<>>, <<>>)
NumV(n) == RVal("int", FALSE, n, 0, <<>>, <<>>)
TextV(s) == RVal("str", FALSE, 0, 0, s, <<>>)
ListV(items) == RVal("list", FALSE, 0, 0, <<>>, items)

\* Decimals around the eighth decimal place, where format() pads, keeps or
\* rounds (ties included), and some with more digits.
Decimals ==
    {DecV(neg, c, p) : neg \in BOOLEAN, c \in {0, 1, 5, 15}, p \in {0, 2, 8, 9, 10}}
        \cup {DecV(neg, c, p) : neg \in BOOLEAN, c \in {25, 12345}, p \in {8, 9, 10}}
Leaves == Decimals \cup {NumV(3), TextV(<<"x">>), NoResult}
FirstItems == {NumV(3), DecV(FALSE, 15, 9)}

\* results nested in lists to a depth
RECURSIVE ResultsOfDepth(_)
ResultsOfDepth(k) ==
    IF k = 0 THEN Leaves
    ELSE Leaves \cup {ListV(<<a>>) : a \in ResultsOfDepth(k - 1)}
                \cup {ListV(<<a, b>>) : a \in FirstItems, b \in ResultsOfDepth(k - 1)}
Results == ResultsOfDepth(MaxDepth)
NoRequest == [keys |-> <<>>, params |-> NoParams]

\* A new activation about to make a top-level UnopartydAPI.call(query, rd).
Frame(kind, id, method, rd) ==
    [kind |-> kind, id |-> id, method |-> method, rd |-> rd, pc |-> "send",
     level |-> 1, unwind |-> 0, trace |-> <<>>,
     server |-> None, wallet |-> None, recipients |-> <<>>]

\* Where a Gateway call is suspended inside a modal dialog's event loop.
YieldPcs == {"prompt", "errdlg"}

Init ==
    /\ session = "init"
    /\ hasXcpApi = FALSE
    /\ constructed = 0
    /\ hasPlugins = FALSE
    /\ plugins = <<>>
    /\ timerStarted = FALSE
    /\ currentBlock = None
    /\ stack = <<>>
    /\ ntick = 0
    /\ ncall = 0
    /\ onMessage \in [PluginNames -> BOOLEAN]
    /\ configResult = "none"
    /\ lastTick = NoTick
    /\ lastOk = NoHeights
    /\ received = [p \in PluginNames |-> <<>>]
    /\ lastCall = NoCall
    /\ lastPref = NoPref
    /\ phase = "idle"
    /\ request = NoRequest
    /\ delivered = NoParams
    /\ apiResult = NoResult
    /\ output = NoResult

\* ------------------------------------------------------------ GUI.initXcpApi
\* What initXcpApi may return: True at once when the Gateway exists, else
\* True when UnopartydAPI(config) is constructed and False on a
\* ConfigurationError.
InitXcpApiOutcomes == IF hasXcpApi THEN {TRUE} ELSE BOOLEAN

\* An initXcpApi without the hasattr test, which constructs whenever it
\* returns True.
ConstructedAfterUntested(ok) == IF ok THEN constructed + 1 ELSE constructed

\* The constructions made once initXcpApi has returned ok: only the else
\* branch calls UnopartydAPI(self.config), and a ConfigurationError leaves
\* self.xcpApi unassigned.
ConstructedAfter(ok) ==
    IF ~hasXcpApi /\ ok THEN constructed + 1 ELSE constructed

\* ----------------------------------------------------------- GUI.initPlugins
\* self.plugins = [] followed by one append per name of config.PLUGINS.
InitPlugins == PLUGINS

\* ---------------------------------------------------------- GUI.notifyPlugins
\* The indices of the registry's plugins with hasattr(plugin, 'onMessage'),
\* in the order the for loop walks the registry.
Listeners(reg) ==
    SelectSeq([i \in 1..Len(reg) |-> i], LAMBDA i : onMessage[reg[i]])

\* The plugins whose onMessage is invoked, in order, when the k-th listener's
\* handler raises (k = 0: none raises and the loop completes).
Recipients(reg, k) ==
    IF k = 0 THEN Listeners(reg) ELSE SubSeq(Listeners(reg), 1, k)

\* plugin.onMessage(messageName, messageData) for each recipient.
Notified(reg, rcp, h, id) ==
    [p \in PluginNames |->
        IF \E j \in 1..Len(rcp) : reg[rcp[j]] = p
           THEN Latest(Append(received[p], [block |-> h, tick |-> id]))
           ELSE received[p]]

\* -------------------------------------------------------- GUI.refreshStatus
\* The comparison alone, without the test for a recorded height.
ChangedWithoutBaseline(prev, h) == prev # h

\* if self.currentBlock is not None and self.currentBlock != unopartyLastBlock
Changed(prev, h) == prev # None /\ prev # h

\* The two ways of ignoring hasattr(self, 'plugins') in the except clause.
EveryFailureFatal == TRUE
NoFailureFatal == FALSE

\* if not hasattr(self, 'plugins'): the failure is a startup failure
StartupFailure == ~hasPlugins

\* What the history keeps of an activation that returns: what it saw and
\* did, what the last successful one before it had seen (prev), and how the
\* one that returned before it had ended (after, afterCause).
Entry(f, result, cause, notified) ==
    [id |-> f.id, result |-> result, cause |-> cause, server |-> f.server,
     wallet |-> f.wallet, notified |-> notified, recipients |-> f.recipients,
     loaded |-> hasPlugins, prev |-> lastOk, after |-> lastTick.result,
     afterCause |-> lastTick.cause]

\* self.currentBlock = unopartyLastBlock; return True.  In GUI.__init__ the
\* first True is followed by loadPlugins(), timer.start() and show().
TickReturnsTrue(f, notified) ==
    /\ currentBlock' = f.server
    /\ lastTick' = Entry(f, "ok", "none", notified)
    /\ lastOk' = [server |-> f.server]
    /\ stack' = Rest
    /\ IF session = "init"
          THEN /\ hasPlugins' = TRUE
               /\ plugins' = InitPlugins
               /\ timerStarted' = TRUE
               /\ session' = "running"
          ELSE UNCHANGED <<hasPlugins, plugins, timerStarted, session>>

\* A refreshStatus that would record the height as soon as get_running_info
\* has returned it, before the tick is known to succeed.
TickFailsRecordsHeight(f, cause, notified) ==
    /\ stack' = Rest
    /\ currentBlock' = IF f.server # None THEN f.server ELSE currentBlock
    /\ UNCHANGED <<hasPlugins, plugins, timerStarted, lastOk>>
    /\ IF StartupFailure
          THEN /\ session' = "configDialog"
               /\ lastTick' = Entry(f, "exit", cause, notified)
          ELSE /\ session' = session
               /\ lastTick' = Entry(f, "failed", cause, notified)

\* except Exception: at startup open the configuration dialog and exit(),
\* otherwise return False.
TickFails(f, cause, notified) ==
    /\ stack' = Rest
    /\ UNCHANGED <<hasPlugins, plugins, timerStarted, currentBlock, lastOk>>
    /\ IF StartupFailure
          THEN /\ session' = "configDialog"
               /\ lastTick' = Entry(f, "exit", cause, notified)
          ELSE /\ session' = session
               /\ lastTick' = Entry(f, "failed", cause, notified)

\* ------------------------------------------------------- UnopartydAPI.call
\* Whether the call that receives clientapi.call's result was asked for a
\* dict: the recursive self.call(query) passes no return_dict.
ReturnDict(f) == f.level = 1 /\ f.rd

CallSummary(f, tr, status, boxed, value) ==
    [method |-> f.method, rd |-> f.rd, trace |-> tr, status |-> status,
     boxed |-> boxed, value |-> value]

Running == stack # <<>> /\ session \in {"init", "running"}

\* clientapi.call raises LockedWalletError: the passphrase InputDialog opens.
CallLocked ==
    /\ Running /\ Top.pc = "send"
    /\ stack' = ReplaceTop([Top EXCEPT !.pc = "prompt",
                              !.trace = @ \o <<"send_locked", "prompt">>])
    /\ lastCall' = NoCall
    /\ UNCHANGED <<gui, env, hist>>
    /\ lastPref' = NoPref
    /\ UNCHANGED data

\* Another error handled like a locked wallet: the passphrase dialog opens.
CallFailsThenPrompts ==
    /\ Running /\ Top.pc = "send"
    /\ stack' = ReplaceTop([Top EXCEPT !.pc = "prompt",
                              !.trace = @ \o <<"send_err", "prompt">>])
    /\ lastCall' = NoCall
    /\ UNCHANGED <<gui, env, hist>>
    /\ lastPref' = NoPref
    /\ UNCHANGED data

\* clientapi.call raises another error: UnopartydRPCError opens its modal
\* message box; the error then rises through every enclosing self.call.
CallFails ==
    /\ Running /\ Top.pc = "send"
    /\ stack' = ReplaceTop([Top EXCEPT !.pc = "errdlg", !.unwind = Top.level,
                              !.trace = @ \o <<"send_err", "dialog">>])
    /\ lastCall' = NoCall
    /\ UNCHANGED <<gui, env, hist>>
    /\ lastPref' = NoPref
    /\ UNCHANGED data

\* clientapi.call('unlock') succeeded: return self.call(query).
AfterUnlock(f) ==
    [f EXCEPT !.pc = "send", !.level = @ + 1, !.trace = Append(@, "unlock_ok")]

\* A failed unlock that went on to return self.call(query).
AfterUnlockErrorRetries(f) ==
    [f EXCEPT !.pc = "send", !.level = @ + 1, !.trace = Append(@, "unlock_err")]

\* clientapi.call('unlock') raised: except Exception -> UnopartydRPCError.
AfterUnlockError(f) ==
    [f EXCEPT !.pc = "errdlg", !.unwind = f.level,
              !.trace = @ \o <<"unlock_err", "dialog">>]

\* The passphrase dialog is closed and the unlock call succeeds.
UnlockSucceeds ==
    /\ Running /\ Top.pc = "prompt" /\ Top.level < MaxLevel
    /\ stack' = ReplaceTop(AfterUnlock(Top))
    /\ lastCall' = NoCall
    /\ UNCHANGED <<gui, env, hist>>
    /\ lastPref' = NoPref
    /\ UNCHANGED data

\* The passphrase dialog is closed and the unlock call raises.
UnlockFails ==
    /\ Running /\ Top.pc = "prompt"
    /\ stack' = ReplaceTop(AfterUnlockError(Top))
    /\ lastCall' = NoCall
    /\ UNCHANGED <<gui, env, hist>>
    /\ lastPref' = NoPref
    /\ UNCHANGED data

\* The message box of a nested self.call is closed: raise Exception(message)
\* is caught by the enclosing call's except Exception, which opens its own.
ErrorPropagates ==
    /\ Running /\ Top.pc = "errdlg" /\ Top.unwind > 1
    /\ stack' = ReplaceTop([Top EXCEPT !.unwind = @ - 1,
                              !.trace = Append(@, "dialog")])
    /\ lastCall' = NoCall
    /\ UNCHANGED <<gui, env, hist>>
    /\ lastPref' = NoPref
    /\ UNCHANGED data

\* The outermost message box is closed and the error reaches refreshStatus.
TickCallRaises ==
    /\ Running /\ Top.pc = "errdlg" /\ Top.unwind = 1 /\ Top.kind = "tick"
    /\ lastCall' = CallSummary(Top, Top.trace, "error", FALSE, None)
    /\ TickFails(Top, "rpc", FALSE)
    /\ UNCHANGED <<hasXcpApi, constructed, env, received>>
    /\ lastPref' = NoPref
    /\ UNCHANGED data

\* The outermost message box is closed and the error reaches the plugin.
UiCallRaises ==
    /\ Running /\ Top.pc = "errdlg" /\ Top.unwind = 1 /\ Top.kind = "ui"
    /\ lastCall' = CallSummary(Top, Top.trace, "error", FALSE, None)
    /\ stack' = Rest
    /\ UNCHANGED <<gui, env, hist>>
    /\ lastPref' = NoPref
    /\ UNCHANGED data

\* clientapi.call returns to a plugin's request.
UiCallReturns ==
    /\ Running /\ Top.pc = "send" /\ Top.kind = "ui"
    /\ \E v \in UiValues :
          lastCall' = CallSummary(Top, Append(Top.trace, "send_ok"), "ok",
                                  ~ReturnDict(Top), v)
    /\ stack' = Rest
    /\ UNCHANGED <<gui, env, hist>>
    /\ lastPref' = NoPref
    /\ UNCHANGED data

\* get_running_info returns height h.  serverInfo['last_block'] needs the
\* native dict: on a QVariant it raises TypeError inside the try block.
RunningInfoReturns ==
    /\ Running /\ Top.pc = "send" /\ Top.kind = "tick"
    /\ Top.method = "get_running_info"
    /\ \E h \in ServerHeights :
          /\ lastCall' = CallSummary(Top, Append(Top.trace, "send_ok"), "ok",
                                     ~ReturnDict(Top), h)
          /\ IF ReturnDict(Top)
                THEN /\ stack' = ReplaceTop(
                            [Frame("tick", Top.id, "wallet_last_block", TRUE)
                                EXCEPT !.server = h])
                     /\ UNCHANGED <<session, hasPlugins, plugins, timerStarted,
                                    currentBlock, lastTick, lastOk>>
                ELSE TickFails(Top, "type", FALSE)
    /\ UNCHANGED <<hasXcpApi, constructed, env, received>>
    /\ lastPref' = NoPref
    /\ UNCHANGED data

\* wallet_last_block returns w (wrapped or not, it is only formatted into
\* the status message).  Then the height is compared; on a change
\* notifyPlugins walks the registry and, unless a handler raised, enters
\* refreshToolbar.
WalletLastBlockReturns ==
    /\ Running /\ Top.pc = "send" /\ Top.kind = "tick"
    /\ Top.method = "wallet_last_block"
    /\ \E w \in WalletHeights :
       LET f == [Top EXCEPT !.wallet = w] IN
          /\ lastCall' = CallSummary(Top, Append(Top.trace, "send_ok"), "ok",
                                     ~ReturnDict(Top), w)
          /\ IF ~Changed(currentBlock, f.server)
                THEN /\ TickReturnsTrue(f, FALSE)
                     /\ UNCHANGED received
                ELSE IF ~hasPlugins
                THEN /\ TickReturnsTrue(f, TRUE)
                     /\ UNCHANGED received
                ELSE \E k \in 0..Len(Listeners(plugins)) :
                     LET rcp == Recipients(plugins, k)
                         g == [f EXCEPT !.pc = "toolbar", !.recipients = rcp]
                     IN  /\ received' = Notified(plugins, rcp, f.server, f.id)
                         /\ IF k = 0
                               THEN /\ stack' = ReplaceTop(g)
                                    /\ UNCHANGED <<session, hasPlugins, plugins,
                                           timerStarted, currentBlock, lastTick,
                                           lastOk>>
                               ELSE TickFails(g, "handler", TRUE)
    /\ UNCHANGED <<hasXcpApi, constructed, env>>
    /\ lastPref' = NoPref
    /\ UNCHANGED data

\* self.refreshToolbar() returns: self.currentBlock is assigned.
ToolbarReturns ==
    /\ Running /\ Top.pc = "toolbar"
    /\ TickReturnsTrue(Top, TRUE)
    /\ lastCall' = NoCall
    /\ UNCHANGED <<hasXcpApi, constructed, env, received>>
    /\ lastPref' = NoPref
    /\ UNCHANGED data

\* self.refreshToolbar() raises.
ToolbarRaises ==
    /\ Running /\ Top.pc = "toolbar"
    /\ TickFails(Top, "toolbar", TRUE)
    /\ lastCall' = NoCall
    /\ UNCHANGED <<hasXcpApi, constructed, env, received>>
    /\ lastPref' = NoPref
    /\ UNCHANGED data

\* ------------------------------------------------------------ GUI.__init__
\* self.currentBlock = None; if self.refreshStatus(): ...  The first
\* refreshStatus begins with initXcpApi; on False it returns False and
\* __init__ ends with neither plugins nor timer (main then runs app.exec()).
StartupTick ==
    /\ session = "init" /\ ntick = 0
    /\ ntick' = 1
    /\ \E ok \in InitXcpApiOutcomes :
          /\ hasXcpApi' = ok
          /\ constructed' = ConstructedAfter(ok)
          /\ IF ok
                THEN /\ stack' = <<Frame("tick", 1, "get_running_info", TRUE)>>
                     /\ UNCHANGED <<session, lastTick>>
                ELSE /\ session' = "running"
                     /\ lastTick' =
                            Entry(Frame("tick", 1, "get_running_info", TRUE),
                                  "failed", "config", FALSE)
                     /\ UNCHANGED stack
    /\ lastCall' = NoCall
    /\ UNCHANGED <<hasPlugins, plugins, timerStarted, currentBlock, ncall,
                   onMessage, configResult, lastOk, received>>
    /\ lastPref' = NoPref
    /\ UNCHANGED data

\* The event loop that may dispatch the timer's timeout: app.exec() with no
\* handler running, or the dialog of a suspended plugin request.
Dispatching ==
    /\ session = "running"
    /\ \/ stack = <<>>
       \/ Len(stack) = 1 /\ Top.kind = "ui" /\ Top.pc \in YieldPcs

\* timer.timeout -> self.refreshStatus
TimerTick ==
    /\ Dispatching /\ timerStarted /\ ntick + ncall < MaxActivations
    /\ ntick' = ntick + 1
    /\ \E ok \in InitXcpApiOutcomes :
          /\ hasXcpApi' = ok
          /\ constructed' = ConstructedAfter(ok)
          /\ IF ok
                THEN /\ stack' = Append(stack,
                            Frame("tick", ntick + 1, "get_running_info", TRUE))
                     /\ UNCHANGED lastTick
                ELSE /\ lastTick' =
                            Entry(Frame("tick", ntick + 1, "get_running_info", TRUE),
                                  "failed", "config", FALSE)
                     /\ UNCHANGED stack
    /\ lastCall' = NoCall
    /\ UNCHANGED <<session, hasPlugins, plugins, timerStarted, currentBlock,
                   ncall, onMessage, configResult, lastOk, received>>
    /\ lastPref' = NoPref
    /\ UNCHANGED data

\* A plugin calls xcpApi.call(query) from QML: return_dict keeps its default.
UiCall ==
    /\ session = "running" /\ stack = <<>> /\ hasPlugins
    /\ ntick + ncall < MaxActivations
    /\ ncall' = ncall + 1
    /\ stack' = <<Frame("ui", 0, "send", FALSE)>>
    /\ lastCall' = NoCall
    /\ UNCHANGED <<gui, ntick, onMessage, configResult, hist>>
    /\ lastPref' = NoPref
    /\ UNCHANGED data

\* GUI.loadPlugins: return when initXcpApi fails, else rebuild the registry.
LoadPlugins(ok) ==
    /\ hasXcpApi' = ok
    /\ constructed' = ConstructedAfter(ok)
    /\ IF ok
          THEN /\ hasPlugins' = TRUE
               /\ plugins' = InitPlugins
          ELSE UNCHANGED <<hasPlugins, plugins>>

\* Preferences...: if self.config.initialize(openDialog=True):
\* self.loadPlugins()
OpenPreference ==
    /\ session = "running" /\ stack = <<>>
    /\ \E accepted \in BOOLEAN, ok \in InitXcpApiOutcomes :
          /\ IF accepted
                THEN LoadPlugins(ok)
                ELSE UNCHANGED <<hasXcpApi, constructed, hasPlugins, plugins>>
          /\ lastPref' = [done |-> TRUE, accepted |-> accepted,
                          hadXcpApi |-> hasXcpApi,
                          constructed |-> constructed, block |-> currentBlock]
    /\ lastCall' = NoCall
    /\ UNCHANGED <<session, timerStarted, currentBlock, stack, env, hist>>
    /\ UNCHANGED data

\* The ConfigDialog opened by a startup failure is closed; exit() follows
\* whatever initialize returned.
ConfigDialogClosed ==
    /\ session = "configDialog"
    /\ \E accepted \in BOOLEAN :
          configResult' = IF accepted THEN "accepted" ELSE "cancelled"
    /\ session' = "exited"
    /\ lastCall' = NoCall
    /\ UNCHANGED <<hasXcpApi, constructed, hasPlugins, plugins, timerStarted,
                   currentBlock,
                   stack, ntick, ncall, onMessage, hist>>
    /\ lastPref' = NoPref
    /\ UNCHANGED data

Next ==
    \/ StartupTick
    \/ TimerTick
    \/ UiCall
    \/ OpenPreference
    \/ ConfigDialogClosed
    \/ CallLocked
    \/ CallFails
    \/ UnlockSucceeds
    \/ UnlockFails
    \/ ErrorPropagates
    \/ TickCallRaises
    \/ UiCallRaises
    \/ UiCallReturns
    \/ RunningInfoReturns
    \/ WalletLastBlockReturns
    \/ ToolbarReturns
    \/ ToolbarRaises

Spec == Init /\ [][Next]_vars

\* ------------------------------------- UnopartydAPI.call, from end to end
\* str.strip() as int() applies it
RECURSIVE LStrip(_)
LStrip(s) == IF s # <<>> /\ Head(s) = " " THEN LStrip(Tail(s)) ELSE s

RECURSIVE RStrip(_)
RStrip(s) ==
    IF s # <<>> /\ s[Len(s)] = " " THEN RStrip(SubSeq(s, 1, Len(s) - 1)) ELSE s

Strip(s) == RStrip(LStrip(s))

Digits == {"1", "2"}
DigitValue(c) == IF c = "1" THEN 1 ELSE 2

\* the number a sequence of digits denotes
RECURSIVE Magnitude(_)
Magnitude(ds) ==
    IF ds = <<>> THEN 0
    ELSE 10 * Magnitude(SubSeq(ds, 1, Len(ds) - 1)) + DigitValue(ds[Len(ds)])

\* int(s) for a str: blanks around, an optional sign, then digits only.
ParseInt(s) ==
    LET t == Strip(s)
        neg == t # <<>> /\ Head(t) = "-"
        ds == IF neg THEN Tail(t) ELSE t
    IN  IF ds # <<>> /\ \A i \in 1..Len(ds) : ds[i] \in Digits
           THEN [ok |-> TRUE, n |-> IF neg THEN 0 - Magnitude(ds) ELSE Magnitude(ds)]
           ELSE [ok |-> FALSE, n |-> 0]

\* An int() that accepts a str of digits only.
PyIntDigitsOnly(v) ==
    IF v.t = "int" THEN [ok |-> TRUE, n |-> v.n]
    ELSE IF v.t = "float"
        THEN [ok |-> TRUE, n |-> IF v.n >= 0 THEN v.n \div 2 ELSE 0 - ((0 - v.n) \div 2)]
    ELSE IF v.t = "str" /\ v.s # <<>> /\ \A i \in 1..Len(v.s) : v.s[i] \in Digits
        THEN [ok |-> TRUE, n |-> Magnitude(v.s)]
    ELSE [ok |-> FALSE, n |-> 0]

\* int(value): an int as it is, a float truncated towards zero, a str
\* parsed; ok is FALSE where int() raises (ValueError, TypeError).
PyInt(v) ==
    IF v.t = "int" THEN [ok |-> TRUE, n |-> v.n]
    ELSE IF v.t = "float"
        THEN [ok |-> TRUE, n |-> IF v.n >= 0 THEN v.n \div 2 ELSE 0 - ((0 - v.n) \div 2)]
    ELSE IF v.t = "str" THEN ParseInt(v.s)
    ELSE [ok |-> FALSE, n |-> 0]

\* for key in query['params']: if key in ['quantity']:
\*     query['params'][key] = int(query['params'][key])
\* inside try ... except: pass, so the first int() that raises ends the loop.
RECURSIVE ConvertKeys(_, _)
ConvertKeys(params, keys) ==
    IF keys = <<>> THEN params
    ELSE IF Head(keys) # "quantity" THEN ConvertKeys(params, Tail(keys))
    ELSE IF PyInt(params[Head(keys)]).ok
        THEN ConvertKeys([params EXCEPT ![Head(keys)] = IntV(PyInt(@).n)],
                         Tail(keys))
    ELSE params

\* format(obj, '.8f'): the number of decimal places
Places == 8

RECURSIVE Pow10(_)
Pow10(k) == IF k = 0 THEN 1 ELSE 10 * Pow10(k - 1)

DigitChar(n) == <<"0", "1", "2", "3", "4", "5", "6", "7", "8", "9">>[n + 1]

\* the decimal digits of a natural number, and its last k digits
RECURSIVE NatStr(_)
NatStr(n) ==
    IF n < 10 THEN <<DigitChar(n)>>
    ELSE Append(NatStr(n \div 10), DigitChar(n % 10))

RECURSIVE Padded(_, _)
Padded(n, k) ==
    IF k = 0 THEN <<>> ELSE Append(Padded(n \div 10, k - 1), DigitChar(n % 10))

\* c / m rounded to an integer, ties to even (the context's ROUND_HALF_EVEN)
RoundHalfEven(c, m) ==
    LET q == c \div m
        r == c % m
    IN  IF 2 * r > m \/ (2 * r = m /\ q % 2 = 1) THEN q + 1 ELSE q

\* the Decimal in units of 10^-Places, as format() rounds it
Units(d) ==
    IF d.p <= Places THEN d.c * Pow10(Places - d.p)
    ELSE RoundHalfEven(d.c, Pow10(d.p - Places))

\* A format() that does not pad the fraction with zeros.
Format8fUnpadded(d) ==
    (IF d.neg THEN <<"-">> ELSE <<>>)
        \o NatStr(Units(d) \div Pow10(Places)) \o <<".">>
        \o NatStr(Units(d) % Pow10(Places))

\* format(obj, '.8f') for a Decimal
Format8f(d) ==
    (IF d.neg THEN <<"-">> ELSE <<>>)
        \o NatStr(Units(d) \div Pow10(Places)) \o <<".">>
        \o Padded(Units(d) % Pow10(Places), Places)

\* DecimalEncoder.default, reached by json.dumps for what it cannot encode
DecimalEncoderDefault(obj) == TextV(Format8f(obj))

\* json.loads(json.dumps(result, cls=DecimalEncoder))
RECURSIVE JsonRoundTrip(_)
JsonRoundTrip(v) ==
    IF v.t = "dec" THEN DecimalEncoderDefault(v)
    ELSE IF v.t = "list"
        THEN ListV([i \in 1..Len(v.items) |-> JsonRoundTrip(v.items[i])])
    ELSE v

\* The call's first part: the quantity hack, then
\* clientapi.call(query['method'], query['params'], ...).
Preprocess ==
    /\ phase = "idle"
    /\ delivered' = ConvertKeys(request.params, request.keys)
    /\ phase' = "called"
    /\ UNCHANGED <<request, apiResult, output, shell>>

\* The call's last part: clientapi.call has returned and the result goes
\* through json.dumps and json.loads.
Postprocess ==
    /\ phase = "called"
    /\ output' = JsonRoundTrip(apiResult)
    /\ phase' = "returned"
    /\ UNCHANGED <<request, delivered, apiResult, shell>>

\* One call with its request and the API's result drawn from the sets above,
\* in a session that is otherwise at rest.
InitCall ==
    /\ session = "running"
    /\ hasXcpApi = TRUE
    /\ constructed = 1
    /\ hasPlugins = FALSE
    /\ plugins = <<>>
    /\ timerStarted = FALSE
    /\ currentBlock = None
    /\ stack = <<>>
    /\ ntick = 0
    /\ ncall = 0
    /\ onMessage = [p \in PluginNames |-> FALSE]
    /\ configResult = "none"
    /\ lastTick = NoTick
    /\ lastOk = NoHeights
    /\ received = [p \in PluginNames |-> <<>>]
    /\ lastCall = NoCall
    /\ lastPref = NoPref
    /\ phase = "idle"
    /\ \/ request \in Requests /\ apiResult = NoResult
       \/ request = NoRequest /\ apiResult \in Results
    /\ delivered = NoParams
    /\ output = NoResult

NextCall ==
    \/ Preprocess
    \/ Postprocess

SpecCall == InitCall /\ [][NextCall]_vars

\* ================================================================ properties
\* What clientapi.call was asked to send, on the trace of a top-level call.
SendTokens == {"send_ok", "send_locked", "send_err"}
Sends(tr) == Cardinality({i \in 1..Len(tr) : tr[i] \in SendTokens})
Prompts(tr) == Count(tr, "prompt")
Unlocks(tr) == Count(tr, "unlock_ok") + Count(tr, "unlock_err")

\* The sends that follow the first successful unlock of a trace.
Reissues(tr) ==
    LET first == CHOOSE i \in 1..Len(tr) :
                    tr[i] = "unlock_ok" /\ \A j \in 1..(i - 1) : tr[j] # "unlock_ok"
    IN  Cardinality({i \in (first + 1)..Len(tr) : tr[i] \in SendTokens})

\* The traces of the top-level calls in progress and of the one just ended.
CallTraces == {stack[i].trace : i \in 1..Len(stack)} \cup {lastCall.trace}

\* What plugin p received from the refreshStatus activation id.
ReceivedFrom(p, id) == {j \in 1..Len(received[p]) : received[p][j].tick = id}

\* C1: a refreshStatus that returns True has notified the plugins exactly when
\* an earlier successful one had recorded a server height and the height it
\* observed differs from it (so not on the first one, and whatever the wallet
\* heights were); what a plugin received from it carries the height it
\* observed, and a plugin's notifications are in tick order.
C1_NewBlockExactlyOnChange ==
    lastTick.result = "ok" =>
        /\ lastTick.notified <=>
               (lastTick.prev.server # None /\ lastTick.server # lastTick.prev.server)
        /\ \A p \in PluginNames : \A j \in ReceivedFrom(p, lastTick.id) :
               lastTick.notified /\ received[p][j].block = lastTick.server
        /\ lastTick.notified =>
               \A i \in 1..Len(lastTick.recipients) :
                  ReceivedFrom(plugins[lastTick.recipients[i]], lastTick.id) # {}
        /\ \A p \in PluginNames : \A j \in 1..(Len(received[p]) - 1) :
               received[p][j].tick < received[p][j + 1].tick

\* A successful tick saw a new server height, the wallet lagging behind it,
\* and a plugin received its notification.
C1_Witness ==
    /\ lastTick.result = "ok" /\ lastTick.notified
    /\ lastTick.prev.server # None /\ lastTick.server # lastTick.prev.server
    /\ lastTick.wallet # lastTick.server
    /\ \E p \in PluginNames : \E j \in ReceivedFrom(p, lastTick.id) :
           received[p][j].block = lastTick.server

\* C2: a call whose request was refused for a locked wallet and whose unlock
\* then succeeded sends the request again exactly once: at most one send
\* follows the unlock while the call runs, and exactly one when it has
\* returned a result.
C2_ReissuedExactlyOnce ==
    \A tr \in CallTraces :
        Count(tr, "unlock_ok") > 0 =>
            /\ Reissues(tr) <= 1
            /\ (tr = lastCall.trace /\ lastCall.status = "ok") => Reissues(tr) = 1

\* C3: a top-level call prompts for the passphrase at most once, calls unlock
\* at most once and sends the request at most twice.
C3_OneRetryPerCall ==
    \A tr \in CallTraces :
        Prompts(tr) <= 1 /\ Unlocks(tr) <= 1 /\ Sends(tr) <= 2

\* C4: once the unlock of a call has failed, the call does nothing but show
\* the error and raise it: no send, prompt or unlock follows, and the call
\* ends with an error.
C4_FailedUnlockIsFatal ==
    /\ \A tr \in CallTraces : \A i \in 1..Len(tr) :
           tr[i] = "unlock_err" =>
               /\ i < Len(tr)
               /\ \A j \in (i + 1)..Len(tr) : tr[j] = "dialog"
    /\ \A i \in 1..Len(stack) :
           Count(stack[i].trace, "unlock_err") > 0 => stack[i].pc = "errdlg"
    /\ Count(lastCall.trace, "unlock_err") > 0 => lastCall.status = "error"

\* A call ended with an error after its one unlock failed.
C4_Witness ==
    /\ lastCall.status = "error"
    /\ lastCall.trace = <<"send_locked", "prompt", "unlock_err", "dialog">>

\* C5: a call that returns a result returns it in the representation its
\* caller asked for: the native value with return_dict, the variant-wrapped
\* value without, on the direct path and on the unlock-and-retry path.
C5_OutputModeHonoured ==
    lastCall.status = "ok" => (lastCall.boxed <=> ~lastCall.rd)

\* C6: the block_index values a plugin receives never decrease.
C6_HeightsNonDecreasing ==
    \A p \in PluginNames : \A j \in 1..(Len(received[p]) - 1) :
        received[p][j].block <= received[p][j + 1].block

\* C7: in a session that has reached its event loop, once the Gateway has
\* been constructed the poll timer is started.
C7_PollingOnceConnected ==
    (session = "running" /\ hasXcpApi) => timerStarted

\* C8: a refreshStatus in which an RPC query raised after the plugins were
\* loaded returned False: it notified no plugin, the session goes on, the
\* timer stays started, and the event loop can dispatch the next tick.
C8_FailedTickIsSwallowed ==
    (lastTick.cause = "rpc" /\ lastTick.loaded) =>
        /\ lastTick.result = "failed"
        /\ ~lastTick.notified
        /\ \A p \in PluginNames : ReceivedFrom(p, lastTick.id) = {}
        /\ session = "running" /\ timerStarted
        /\ (stack = <<>> /\ ntick + ncall < MaxActivations) => ENABLED TimerTick

\* A tick failed on an RPC error right after a failed tick, plugins loaded.
C8_Witness ==
    /\ lastTick.cause = "rpc" /\ lastTick.loaded
    /\ lastTick.result = "failed" /\ lastTick.after = "failed"
    /\ session = "running" /\ timerStarted

\* C9: when the first refreshStatus raises, the configuration dialog opens
\* and the session ends however the dialog is closed; in such a session no
\* plugin is loaded, the timer is not started and no plugin is notified.
C9_FirstTickFailureExits ==
    /\ (lastTick.id = 1 /\ lastTick.cause \in {"rpc", "type"}) =>
           lastTick.result = "exit" /\ session \in {"configDialog", "exited"}
    /\ session = "configDialog" =>
           configResult = "none" /\ ENABLED ConfigDialogClosed
    /\ session = "exited" => configResult \in {"accepted", "cancelled"}
    /\ session \in {"configDialog", "exited"} =>
           /\ lastTick.id = 1 /\ lastTick.result = "exit"
           /\ ~hasPlugins /\ plugins = <<>> /\ ~timerStarted
           /\ stack = <<>>
           /\ \A p \in PluginNames : received[p] = <<>>

\* The first tick failed on an RPC error, the dialog was accepted, and the
\* session has ended all the same.
C9_Witness ==
    /\ lastTick.id = 1 /\ lastTick.cause = "rpc"
    /\ session = "exited" /\ configResult = "accepted"

\* C10: the notification of a tick reaches every plugin of the registry
\* that defines onMessage, once each and in the registry's order.
C10_DeliveredToEveryListener ==
    lastTick.notified =>
        /\ lastTick.recipients = Listeners(plugins)
        /\ \A p \in PluginNames : Cardinality(ReceivedFrom(p, lastTick.id)) <= 1

\* C11: when some plugins of the registry define no onMessage, the
\* notification of a tick reaches exactly the plugins that define it,
\* wherever the others sit in the registry.
C11_HandlerlessSkipped ==
    (lastTick.notified /\ \E p \in PluginNames : ~onMessage[p]) =>
        \A i \in 1..Len(plugins) :
            ReceivedFrom(plugins[i], lastTick.id) # {} <=> onMessage[plugins[i]]

\* C12: once clientapi.call has raised an error other than a locked wallet,
\* the call shows the error and raises it: no prompt, unlock or send follows;
\* a call whose first send failed so has shown the error and done nothing
\* else, and a plugin's call that ended so leaves the session running.
C12_OtherErrorAbortsOperation ==
    /\ \A tr \in CallTraces : \A i \in 1..Len(tr) :
           tr[i] = "send_err" =>
               /\ i < Len(tr)
               /\ \A j \in (i + 1)..Len(tr) : tr[j] = "dialog"
    /\ \A tr \in CallTraces :
           (tr # <<>> /\ tr[1] = "send_err") => tr = <<"send_err", "dialog">>
    /\ \A i \in 1..Len(stack) :
           Count(stack[i].trace, "send_err") > 0 => stack[i].pc = "errdlg"
    /\ Count(lastCall.trace, "send_err") > 0 => lastCall.status = "error"
    /\ (lastCall.method = "send" /\ lastCall.status = "error") =>
           session = "running"

\* A plugin's call ended with an error after its only send failed.
C12_Witness ==
    /\ lastCall.method = "send" /\ lastCall.status = "error"
    /\ lastCall.trace = <<"send_err", "dialog">>
    /\ session = "running"

Abs(n) == IF n < 0 THEN 0 - n ELSE n

\* the decimal numeral of an integer
Repr(n) == IF n < 0 THEN <<"-">> \o NatStr(0 - n) ELSE NatStr(n)

\* s is the numeral of n with nothing but blanks around it
Denotes(s, n) ==
    \E i \in 1..Len(s) : \E j \in i..Len(s) :
        /\ SubSeq(s, i, j) = Repr(n)
        /\ \A k \in 1..Len(s) : (k < i \/ k > j) => s[k] = " "

\* the integers a supplied string can denote: those short enough whose
\* numeral is written with the characters supplied
Numerals ==
    {n \in (0 - Pow10(MaxStrLen))..Pow10(MaxStrLen) :
        \A i \in 1..Len(Repr(n)) : Repr(n)[i] \in Chars}

\* C13: clientapi.call receives for quantity the integer the supplied value
\* converts to (an int itself, a float truncated towards zero, a string the
\* integer it is the numeral of) and the supplied value itself when it
\* converts to none; the call goes on either way, and the other key of
\* params arrives as supplied.
C13_QuantityConverted ==
    (phase # "idle" /\ request # NoRequest) =>
        LET q == request.params.quantity
            d == delivered.quantity
        IN  /\ delivered.asset = request.params.asset
            /\ q.t = "int" => d = q
            /\ q.t = "none" => d = q
            /\ q.t = "float" =>
                   /\ d.t = "int" /\ d.n * q.n >= 0
                   /\ 2 * Abs(d.n) <= Abs(q.n) /\ Abs(q.n) < 2 * Abs(d.n) + 2
            /\ q.t = "str" =>
                   IF \E n \in Numerals : Denotes(q.s, n)
                      THEN d.t = "int" /\ Denotes(q.s, d.n)
                      ELSE d = q

\* The string "-12" arrived as the integer -12, and the string "12" under
\* the other key arrived as the string.
C13_Witness ==
    /\ phase = "called"
    /\ request.params.quantity = StrV(<<"-", "1", "2">>)
    /\ request.params.asset = StrV(<<"1", "2">>)
    /\ delivered.quantity = IntV(0 - 12)
    /\ delivered.asset = StrV(<<"1", "2">>)

\* the digit a character writes
DigitOf(ch) == CHOOSE n \in 0..9 : DigitChar(n) = ch
IsDigit(ch) == \E n \in 0..9 : DigitChar(n) = ch

\* the natural number a sequence of digits writes
RECURSIVE NatOf(_)
NatOf(ds) ==
    IF ds = <<>> THEN 0
    ELSE 10 * NatOf(SubSeq(ds, 1, Len(ds) - 1)) + DigitOf(ds[Len(ds)])

\* str is an optional sign, digits, a separator and exactly Places digits
FixedPoint(str) ==
    LET body == IF str # <<>> /\ Head(str) = "-" THEN Tail(str) ELSE str
        dot == Len(body) - Places
    IN  /\ dot >= 2
        /\ body[dot] = "."
        /\ \A i \in 1..Len(body) : i # dot => IsDigit(body[i])

\* the value of such a string in units of 10^-Places, signed
UnitsOf(str) ==
    LET neg == Head(str) = "-"
        body == IF neg THEN Tail(str) ELSE str
        dot == Len(body) - Places
        u == NatOf(SubSeq(body, 1, dot - 1)) * Pow10(Places)
                 + NatOf(SubSeq(body, dot + 1, Len(body)))
    IN  IF neg THEN 0 - u ELSE u

\* the string is within 10^-Places of the Decimal d
ParsesBackTo(str, d) ==
    LET sd == IF d.neg THEN 0 - d.c ELSE d.c
    IN  IF d.p <= Places
           THEN Abs(UnitsOf(str) - sd * Pow10(Places - d.p)) <= 1
           ELSE Abs(UnitsOf(str) * Pow10(d.p - Places) - sd) <= Pow10(d.p - Places)

\* out is the result v with a fixed-point string for every Decimal in it
RECURSIVE Carries(_, _)
Carries(out, v) ==
    IF v.t = "dec"
       THEN out.t = "str" /\ FixedPoint(out.s) /\ ParsesBackTo(out.s, v)
    ELSE IF v.t = "list"
       THEN /\ out.t = "list" /\ Len(out.items) = Len(v.items)
            /\ \A i \in 1..Len(v.items) : Carries(out.items[i], v.items[i])
    ELSE out = v

\* C14: in the call's output every Decimal of the API's result, at any depth,
\* is replaced by a string with exactly 8 digits after the separator that
\* parses back to within 1e-8 of it, and every other value is unchanged.
C14_DecimalsAsFixedPoint ==
    phase = "returned" => Carries(output, apiResult)

\* A Decimal nested two lists deep, 0.000000015, came out as "0.00000002".
C14_Witness ==
    /\ phase = "returned"
    /\ apiResult = ListV(<<NumV(3), ListV(<<DecV(FALSE, 15, 9)>>)>>)
    /\ output = ListV(<<NumV(3), ListV(<<TextV(
           <<"0", ".", "0", "0", "0", "0", "0", "0", "0", "2">>)>>)>>)

\* C17: a tick that failed on one of its two RPC queries has notified nobody
\* and leaves self.currentBlock at the height the latest successful tick
\* recorded; the successful tick that follows such a failed tick compares
\* with that height: it notifies exactly when the height it observed differs
\* from it, each recipient receiving exactly one event that carries the
\* observed height, and then records the observed height.
C17_FailedTickKeepsBaseline ==
    /\ lastTick.cause = "rpc" =>
           /\ currentBlock = lastTick.prev.server
           /\ ~lastTick.notified
           /\ \A p \in PluginNames : ReceivedFrom(p, lastTick.id) = {}
    /\ (lastTick.result = "ok" /\ lastTick.afterCause = "rpc") =>
           /\ currentBlock = lastTick.server
           /\ lastTick.notified <=>
                  (lastTick.prev.server # None
                      /\ lastTick.server # lastTick.prev.server)
           /\ \A p \in PluginNames :
                  \A j, k \in ReceivedFrom(p, lastTick.id) :
                     j = k /\ lastTick.notified
                           /\ received[p][j].block = lastTick.server
           /\ lastTick.notified =>
                  \A i \in 1..Len(lastTick.recipients) :
                     ReceivedFrom(plugins[lastTick.recipients[i]],
                                  lastTick.id) # {}

\* After a recorded height, a tick failed on an RPC query, and the next tick
\* succeeded, saw another height and delivered it to a plugin.
C17_Witness ==
    /\ lastTick.result = "ok" /\ lastTick.afterCause = "rpc"
    /\ lastTick.after = "failed"
    /\ lastTick.prev.server # None /\ lastTick.server # lastTick.prev.server
    /\ lastTick.notified /\ currentBlock = lastTick.server
    /\ \E p \in PluginNames : \E j \in ReceivedFrom(p, lastTick.id) :
           received[p][j].block = lastTick.server

\* C16: a plugin never receives two consecutive notifications that carry
\* the same block_index.
C16_NoRepeatedHeight ==
    \A p \in PluginNames : \A j \in 1..(Len(received[p]) - 1) :
        received[p][j].block # received[p][j + 1].block

\* C18: a top-level call that ended with an error has shown exactly one error
\* message box.
C18_OneDialogPerFailure ==
    lastCall.status = "error" =>
        Cardinality({i \in 1..Len(lastCall.trace) :
                        lastCall.trace[i] = "dialog"}) = 1

\* C19: UnopartydAPI is constructed at most once in a session, and the
\* Gateway exists exactly when it has been; only the very first initXcpApi
\* of the status loop can have failed on the configuration; a Preferences
\* activation made when the Gateway existed has constructed nothing, keeps
\* the Gateway and self.currentBlock as they were and, when the dialog was
\* accepted, has rebuilt the plugin registry.
C19_GatewayConstructedOnce ==
    /\ constructed <= 1
    /\ hasXcpApi <=> constructed = 1
    /\ lastTick.cause = "config" => (lastTick.id = 1 /\ ~timerStarted)
    /\ (lastPref.done /\ lastPref.hadXcpApi) =>
           /\ hasXcpApi
           /\ constructed = lastPref.constructed
           /\ currentBlock = lastPref.block
           /\ lastPref.accepted => (hasPlugins /\ plugins = InitPlugins)

\* After a successful tick had recorded a height with the Gateway
\* constructed, an accepted Preferences dialog rebuilt the registry.
C19_Witness ==
    /\ lastPref.done /\ lastPref.accepted /\ lastPref.hadXcpApi
    /\ lastTick.result = "ok" /\ lastPref.block # None
    /\ constructed = 1 /\ hasXcpApi
    /\ currentBlock = lastPref.block
    /\ plugins = InitPlugins

=============================================================================
